---- MODULE Spec2Model ----
(***************************************************************************)
(* Model of check_links.py: the run of main() over the campaigns, ads and  *)
(* links of a Yandex.Direct account.  Strings that the program takes apart *)
(* (URLs, HTML bodies, header values) are drawn from finite tables; the    *)
(* library calls on them (urlparse, str.lower, str.startswith, urljoin,    *)
(* str.strip, re.search) are tabulated on exactly those strings.           *)
(***************************************************************************)
EXTENDS Integers, Sequences, FiniteSets, TLC

\* ---------------------------------------------------------------- bounds
MaxPages == 2           \* pages of ads the API serves per campaign
MaxAdsPerPage == 1      \* ads on one page
MaxLinks == 2           \* links fetched in one run
MaxRecheck == 1         \* largest value given to --recheck-attempts

\* ------------------------------------------------------- Python values
\* None in an Optional[str]; the empty string "" is a different value.
None == "None"
\* None in an Optional[int].
NoneInt == 0 - 1

\* Truthiness of an Optional[str]: None and "" are falsy.
Truthy(s) == s # None /\ s # ""

\* ------------------------------------------------- module-level tables
HTTP_STATUS_DESCRIPTIONS ==
    [c \in {400, 401, 403, 404, 429, 500, 502, 503, 504} |->
        CASE c = 400 -> "bad request"
          [] c = 401 -> "authorization required"
          [] c = 403 -> "access forbidden"
          [] c = 404 -> "page not found"
          [] c = 429 -> "too many requests"
          [] c = 500 -> "internal server error"
          [] c = 502 -> "bad gateway"
          [] c = 503 -> "service unavailable"
          [] c = 504 -> "gateway timeout"]

STUB_DOMAINS == {"bankpro.su", "tb.gdeslon.ru"}

STUB_ADMITAD_HOST == "offerwall.admitad.com"

\* "/wall/offers" as a sequence of chunks of characters.
STUB_ADMITAD_PATH_PREFIX == <<"/wall", "/offers">>

\* Page.Limit of the ads request.
PageLimit == 10000

\* --------------------------------------------------------- URL strings
\* urllib.parse.urlparse on the URLs of the model: netloc as written (port and
\* letter case kept), path as a sequence of chunks ("" is <<>>).
urlparse(u) ==
    CASE u = "https://bankpro.su/x" ->
            [netloc |-> "bankpro.su", path |-> <<"/x">>]
      [] u = "https://BANKPRO.SU" ->
            [netloc |-> "BANKPRO.SU", path |-> <<>>]
      [] u = "https://bankpro.su:443/x" ->
            [netloc |-> "bankpro.su:443", path |-> <<"/x">>]
      [] u = "https://offerwall.admitad.com/wall/offers/7" ->
            [netloc |-> "offerwall.admitad.com",
             path |-> <<"/wall", "/offers", "/7">>]
      [] u = "https://offerwall.admitad.com/wall" ->
            [netloc |-> "offerwall.admitad.com", path |-> <<"/wall">>]
      [] u = "https://site.example/x" ->
            [netloc |-> "site.example", path |-> <<"/x">>]
      [] u = "https://site.example/offer/123" ->
            [netloc |-> "site.example", path |-> <<"/offer", "/123">>]
      [] u = "https://tb.gdeslon.ru/" ->
            [netloc |-> "tb.gdeslon.ru", path |-> <<"/">>]
      [] u = "https://bankpro.su/offer/123" ->
            [netloc |-> "bankpro.su", path |-> <<"/offer", "/123">>]
      [] u = "https://BANKPRO.SU/offer/123" ->
            [netloc |-> "BANKPRO.SU", path |-> <<"/offer", "/123">>]
      [] u = "https://bankpro.su:443/offer/123" ->
            [netloc |-> "bankpro.su:443", path |-> <<"/offer", "/123">>]
      [] u = "https://offerwall.admitad.com/offer/123" ->
            [netloc |-> "offerwall.admitad.com", path |-> <<"/offer", "/123">>]
      [] OTHER -> [netloc |-> "", path |-> <<>>]

\* str.lower on the netlocs and header values of the model.
lower(s) ==
    CASE s = "BANKPRO.SU" -> "bankpro.su"
      [] s = "Text/HTML" -> "text/html"
      [] OTHER -> s

\* str.startswith on chunk sequences.
startswith(s, prefix) ==
    /\ Len(s) >= Len(prefix)
    /\ SubSeq(s, 1, Len(prefix)) = prefix

\* str.strip on the captured targets.
strip(s) ==
    CASE s = " " -> ""
      [] s = " /offer/123 " -> "/offer/123"
      [] OTHER -> s

\* urllib.parse.urljoin: an absolute target replaces the base, a rooted
\* path keeps the base's scheme and netloc and replaces its path.
urljoin(base_url, target) ==
    IF target = "/offer/123"
    THEN LET netloc == urlparse(base_url).netloc
         IN  CASE netloc = "site.example" -> "https://site.example/offer/123"
               [] netloc = "bankpro.su" -> "https://bankpro.su/offer/123"
               [] netloc = "BANKPRO.SU" -> "https://BANKPRO.SU/offer/123"
               [] netloc = "bankpro.su:443" -> "https://bankpro.su:443/offer/123"
               [] netloc = "offerwall.admitad.com" ->
                      "https://offerwall.admitad.com/offer/123"
    ELSE target

\* ---------------------------------------------------- is_stub_final_url
is_stub_final_url(final_url) ==
    IF ~Truthy(final_url)
    THEN FALSE
    ELSE LET parsed == urlparse(final_url)
             host == lower(parsed.netloc)
             path == IF parsed.path = <<>> THEN <<"/">> ELSE parsed.path
         IN  \/ host \in STUB_DOMAINS
             \/ /\ host = STUB_ADMITAD_HOST
                /\ startswith(path, STUB_ADMITAD_PATH_PREFIX)

\* ------------------------------------------- extract_client_redirect_url
\* An HTML text is the sequence of its fragments, in document order.  A
\* fragment is a place where CLIENT_REDIRECT_PATTERNS[rule] matches, with
\* the text its group 1 captures, or plain markup (rule 0).  The empty
\* sequence is the empty string.  Pattern 1 captures [^"'>\s]+, so a meta
\* refresh target never holds white space.
Fragment(rule, target) == [rule |-> rule, target |-> target]

\* Number of patterns in CLIENT_REDIRECT_PATTERNS: meta refresh (1),
\* location.href (2), window.location (3), location.replace (4).
NumPatterns == 4

\* Variant of search: the leftmost match with a target that is not blank.
search_nonblank(rule, html) ==
    LET hits == {i \in 1..Len(html) :
                    html[i].rule = rule /\ html[i].target \notin {"", " "}}
    IN  IF hits = {} THEN 0
        ELSE CHOOSE i \in hits : \A j \in hits : i <= j

\* pat.search(html): index of the leftmost fragment that the pattern
\* matches, 0 when there is none.
search(rule, html) ==
    LET hits == {i \in 1..Len(html) : html[i].rule = rule}
    IN  IF hits = {} THEN 0
        ELSE CHOOSE i \in hits : \A j \in hits : i <= j

RECURSIVE extract_from(_, _, _)
\* The for loop of extract_client_redirect_url from pattern number rule on.
extract_from(rule, html, base_url) ==
    IF rule > NumPatterns
    THEN None
    ELSE LET m == search(rule, html)
         IN  IF m = 0
             THEN extract_from(rule + 1, html, base_url)
             ELSE LET target == strip(html[m].target)
                  IN  IF target = ""
                      THEN extract_from(rule + 1, html, base_url)
                      ELSE urljoin(base_url, target)

\* Variant of extract_client_redirect_url: the leftmost match in the
\* document wins, whatever its pattern is.
extract_by_position(html, base_url) ==
    LET hits == {i \in 1..Len(html) : html[i].rule > 0}
    IN  IF hits = {} THEN None
        ELSE urljoin(base_url,
                     html[CHOOSE i \in hits : \A j \in hits : i <= j].target)

extract_client_redirect_url(html, base_url) ==
    IF html = <<>> THEN None ELSE extract_from(1, html, base_url)

\* ----------------------------------------------------- check_url_verbose
\* Variant of contains_text_html: every body is taken for HTML.
contains_any_type(content_type) == TRUE

\* "text/html" in content_type, on the lower-cased header values.
contains_text_html(content_type) ==
    content_type \in {"text/html; charset=utf-8", "text/html"}

\* A response of requests.get after it has followed the redirects.
Response(status_code, url, content_type, text) ==
    [status_code |-> status_code, url |-> url,
     content_type |-> content_type, text |-> text]

\* The responses of the model.  Status codes: 200, the last 2xx code, the
\* first code after the 2xx range (it has no description), and 404.
Responses ==
    { Response(200, "https://site.example/x", "application/pdf",
               << Fragment(1, "https://tb.gdeslon.ru/") >>),
      Response(200, "https://site.example/x", "text/html; charset=utf-8",
               << Fragment(4, "/offer/123"),
                  Fragment(1, "https://tb.gdeslon.ru/") >>),
      Response(200, "https://site.example/x", "Text/HTML",
               << Fragment(4, "https://tb.gdeslon.ru/"),
                  Fragment(2, " /offer/123 ") >>),
      Response(200, "https://site.example/x", "text/html; charset=utf-8",
               << Fragment(2, " "), Fragment(2, "https://tb.gdeslon.ru/"),
                  Fragment(3, "/offer/123") >>),
      Response(200, "https://bankpro.su/x", None, <<>>),
      Response(200, "https://bankpro.su:443/x", "text/html; charset=utf-8",
               << Fragment(0, "") >>),
      Response(200, "https://offerwall.admitad.com/wall/offers/7",
               "text/html; charset=utf-8", <<>>),
      Response(200, "https://offerwall.admitad.com/wall", "application/pdf",
               <<>>),
      Response(299, "https://site.example/x", "text/html; charset=utf-8",
               << Fragment(1, "https://tb.gdeslon.ru/") >>),
      Response(300, "https://site.example/x", None, <<>>),
      Response(404, "https://site.example/x", "text/html; charset=utf-8",
               << Fragment(1, "https://tb.gdeslon.ru/") >>),
      Response(404, "https://BANKPRO.SU", "text/html; charset=utf-8", <<>>) }

\* Exceptions requests.get may raise, by class, and their str(exc).
ExcClasses == {"ConnectTimeout", "ConnectionError", "TooManyRedirects"}
ExcMessages == {"", "timed out"}

\* What one requests.get does: it returns a response or raises.
FetchOutcomes ==
    [raised : {FALSE}, r : Responses, cls : {None}, msg : {None}]
        \cup [raised : {TRUE}, r : {None}, cls : ExcClasses, msg : ExcMessages]

\* Variant of is_RequestException: the clause names requests.Timeout only.
is_RequestException_timeout_only(cls) == cls = "ConnectTimeout"

\* except requests.RequestException: the classes the clause catches.
is_RequestException(cls) ==
    cls \in {"ConnectTimeout", "ConnectionError", "TooManyRedirects"}

\* html of the returned tuple: None, or the captured text.
NoHtml == [captured |-> FALSE, text |-> <<>>]

\* The try branch: (r.status_code, None, r.url, html).
check_url_verbose_ok(r) ==
    LET content_type ==
            lower(IF Truthy(r.content_type) THEN r.content_type ELSE "")
        html == IF contains_text_html(content_type)
                THEN [captured |-> TRUE, text |-> r.text]
                ELSE NoHtml
    IN  [status |-> r.status_code, error |-> None,
         final_url |-> r.url, html |-> html]

\* Variant of check_url_verbose_exc: the message is dropped.
check_url_verbose_exc_no_message(exc) ==
    [status |-> NoneInt, error |-> None, final_url |-> None, html |-> NoHtml]

\* The except branch: (None, str(exc), None, None).
check_url_verbose_exc(exc) ==
    [status |-> NoneInt, error |-> exc, final_url |-> None, html |-> NoHtml]

\* check_url_verbose on one fetch that returned or raised a caught class.
check_url_verbose(o) ==
    IF o.raised THEN check_url_verbose_exc(o.msg) ELSE check_url_verbose_ok(o.r)

\* --------------------------------------------------------------- check_url
\* Variant of check_url: the client-side target is not looked for.
check_url_protocol_only(v) ==
    [status |-> v.status, error |-> v.error, final_url |-> v.final_url]

\* Variant of check_url: the body is searched for every 2xx status.
check_url_any_2xx(v) ==
    LET client_target ==
            IF /\ v.status # NoneInt /\ 200 <= v.status /\ v.status < 300
               /\ v.html.captured /\ v.html.text # <<>>
               /\ Truthy(v.final_url)
            THEN extract_client_redirect_url(v.html.text, v.final_url)
            ELSE None
    IN  IF Truthy(client_target)
        THEN [status |-> v.status, error |-> v.error, final_url |-> client_target]
        ELSE [status |-> v.status, error |-> v.error, final_url |-> v.final_url]

\* check_url: the tuple of check_url_verbose, with final_url replaced by
\* the client-side target when status is 200 and the body gives one.
check_url(v) ==
    LET client_target ==
            IF /\ v.status = 200
               /\ v.html.captured /\ v.html.text # <<>>
               /\ Truthy(v.final_url)
            THEN extract_client_redirect_url(v.html.text, v.final_url)
            ELSE None
    IN  IF Truthy(client_target)
        THEN [status |-> v.status, error |-> v.error, final_url |-> client_target]
        ELSE [status |-> v.status, error |-> v.error, final_url |-> v.final_url]

\* ------------------------------------------------------ main: helpers
\* Variant of is_ok: the stub flag is not tested.
is_ok_without_stub(status, stub) ==
    status # NoneInt /\ 200 <= status /\ status < 300

\* Variant of is_ok: only status 200 counts as success.
is_ok_only_200(status, stub) == status = 200 /\ ~stub

\* The success test of main: status is not None and 200 <= status < 300
\* and not stub.
is_ok(status, stub) ==
    status # NoneInt /\ 200 <= status /\ status < 300 /\ ~stub

\* Variant of base_desc: a code without description gets a default text.
base_desc_with_default(status) ==
    IF status \in DOMAIN HTTP_STATUS_DESCRIPTIONS
    THEN HTTP_STATUS_DESCRIPTIONS[status]
    ELSE "error"

\* HTTP_STATUS_DESCRIPTIONS.get(status)
base_desc(status) ==
    IF status \in DOMAIN HTTP_STATUS_DESCRIPTIONS
    THEN HTTP_STATUS_DESCRIPTIONS[status]
    ELSE None

\* The tuple (ad_id, url, status_code, desc, is_stub) that main appends to
\* issues_http[campaign_id] for a link that is not OK.
issue_entry(id, url, status, error, stub) ==
    IF stub
    THEN <<id, url, status, "stub of a partner network", TRUE>>
    ELSE IF status = NoneInt
         THEN <<id, url, NoneInt,
                 IF Truthy(error) THEN error ELSE "request error, no details",
                 FALSE>>
         ELSE <<id, url, status, base_desc(status), FALSE>>

\* One entry of lines: the kind of message and the values formatted into it.
Line(kind, campaign, id, url, status, final_url, desc) ==
    [kind |-> kind, campaign_id |-> campaign, ad_id |-> id, url |-> url,
     status |-> status, final_url |-> final_url, desc |-> desc]

\* The message main prints and logs for one checked link.
link_msg(id, url, status, error, final_url, stub) ==
    IF is_ok(status, stub)
    THEN Line("ok", 0, id, url, status, None, None)
    ELSE LET e == issue_entry(id, url, status, error, stub)
         IN  IF stub
             THEN Line("stub", 0, id, url, NoneInt, final_url, e[4])
             ELSE IF status = NoneInt
                  THEN Line("error", 0, id, url, NoneInt, None, e[4])
                  ELSE Line("http", 0, id, url, status, None, e[4])

\* Variant of dict_append: the list is assigned instead of appended to.
dict_append_assign(d, key, entry) ==
    [k \in DOMAIN d \cup {key} |-> IF k = key THEN <<entry>> ELSE d[k]]

\* issues_http[campaign_id].append(entry) on a defaultdict(list).
dict_append(d, key, entry) ==
    IF key \in DOMAIN d
    THEN [d EXCEPT ![key] = Append(@, entry)]
    ELSE [k \in DOMAIN d \cup {key} |-> IF k = key THEN <<entry>> ELSE d[k]]

\* Variant of dict_set: the value is not stored.
dict_set_dropped(d, key, value) == d

\* issues_api[campaign_id] = err_text on a dict.
dict_set(d, key, value) ==
    [k \in DOMAIN d \cup {key} |-> IF k = key THEN value ELSE d[k]]

\* ------------------------------------------------- the Direct API client
\* What one POST of YandexDirectClient._request ends in.
ApiOutcomes == {"ok", "network_error", "http_error", "api_error"}

\* The exception _request raises for an outcome (None: it returns).
request_raises(outcome) ==
    CASE outcome = "network_error" -> "RuntimeError"
      [] outcome = "http_error" -> "HTTPError"
      [] outcome = "api_error" -> "RuntimeError"
      [] OTHER -> None

\* except RuntimeError in main: the classes the clause catches.
is_RuntimeError(cls) == cls = "RuntimeError"

\* Campaign lists the campaigns request may return: an account without
\* active campaigns, or one with the campaigns 1 and 2.
CampaignLists == {<<>>, <<1, 2>>}

\* Ads the ads request may return.
Ad(id, state, text_href, dynamic_href, builder_href) ==
    [Id |-> id, State |-> state, TextAd |-> text_href,
     DynamicTextAd |-> dynamic_href, TextAdBuilderAd |-> builder_href]

Ads ==
    { Ad(11, "ON", "https://shop.example/a", None, None),
      Ad(12, "ON", "https://shop.example/a", "", "https://shop.example/b"),
      Ad(13, "OFF", "https://shop.example/b", None, None) }

\* extract_urls_from_ad: the truthy Href values in key order.
extract_urls_from_ad(ad) ==
    (IF Truthy(ad.TextAd) THEN <<ad.TextAd>> ELSE <<>>)
        \o (IF Truthy(ad.DynamicTextAd) THEN <<ad.DynamicTextAd>> ELSE <<>>)
        \o (IF Truthy(ad.TextAdBuilderAd) THEN <<ad.TextAdBuilderAd>> ELSE <<>>)

\* Variant of on_ads: the State of an ad is not tested.
on_ads_unfiltered(page_ads) == page_ads

\* The ads iter_ads yields from one page: those whose State is ON.
on_ads(page_ads) == SelectSeq(page_ads, LAMBDA ad : ad.State = "ON")

RECURSIVE count_links(_)
\* Number of links iter_ads and extract_urls_from_ad give for a page.
count_links(page_ads) ==
    IF page_ads = <<>> THEN 0
    ELSE (IF Head(page_ads).State = "ON"
          THEN Len(extract_urls_from_ad(Head(page_ads))) ELSE 0)
         + count_links(Tail(page_ads))

\* Pages of ads: result["Ads"] of one ads request.
PageAds == UNION {[1..n -> Ads] : n \in 0..MaxAdsPerPage}

\* ------------------------------------------------------------- arguments
\* The command line: whether token and client login are present, the
\* options parse_args defines, and the recheck options of the usage notes.
Args(token, list, ids, telegram, skip, attempts, only_domains) ==
    [token |-> token, list_campaigns |-> list, campaign_ids |-> ids,
     telegram |-> telegram, skip_campaigns_file |-> skip,
     recheck_attempts |-> attempts, recheck_only_domains |-> only_domains]

\* skip_campaigns_file stands for the ids in the file the option names.
Argv ==
    { Args(TRUE, FALSE, {}, TRUE, {}, 0, FALSE),
      Args(TRUE, FALSE, {}, TRUE, {2}, 0, FALSE),
      Args(TRUE, FALSE, {1}, FALSE, {}, 0, FALSE),
      Args(TRUE, TRUE, {}, FALSE, {}, 0, FALSE),
      Args(FALSE, FALSE, {}, FALSE, {}, 0, FALSE) }
        \cup {Args(TRUE, FALSE, {}, FALSE, {}, n, FALSE) : n \in 1..MaxRecheck}
        \cup {Args(TRUE, FALSE, {}, FALSE, {}, n, TRUE) : n \in 1..MaxRecheck}

\* Options the parser of parse_args does not define.
unknown_options(a) == a.recheck_attempts > 0 \/ a.recheck_only_domains

\* load_skip_campaigns(path): the ids read from the file.
load_skip_campaigns(a) == a.skip_campaigns_file

\* ------------------------------------------------------------------ state
VARIABLES
    pc,                 \* position of main
    argv,               \* the command line
    skip_campaigns,     \* load_skip_campaigns(...)
    campaigns,          \* campaigns iter_active_campaign_ids still yields
    campaign_id,        \* loop variable of main
    seen_campaign_ids,
    offset,             \* params["Page"]["Offset"] of iter_ads
    ads,                \* ON ads of the current page not yet yielded
    result,             \* result of the last ads request of iter_ads
    limited_by,         \* result.get("LimitedBy") of the current page
    ad_id,
    urls,               \* links of the current ad not yet checked
    response,           \* what requests.get returned in the last check
    verbose,            \* what check_url_verbose returned in the last check
    cur,                \* url, status, error, final_url, stub of the last check
    any_issue,
    lines,
    issues_http,
    issues_api,
    api_call,           \* service and outcome of the last _request
    http_gets,          \* number of requests.get calls made so far
    report,             \* which Telegram report was prepared
    group_stub,         \* the groups of the report with issues
    group_404,
    group_other,
    group_no_code,
    total_critical_ads,
    total_other_ads

vars ==
    <<pc, argv, skip_campaigns, campaigns, campaign_id, seen_campaign_ids,
      offset, ads, limited_by, ad_id, urls, cur, any_issue, lines,
      issues_http, issues_api, api_call, http_gets, report, response,
      verbose, result, group_stub, group_404, group_other, group_no_code,
      total_critical_ads, total_other_ads>>

\* No response yet, no tuple yet, and no result of an ads request.
NoResponse == Response(NoneInt, None, None, <<>>)

NoVerbose ==
    [status |-> NoneInt, error |-> None, final_url |-> None, html |-> NoHtml]

NoResult == [Ads |-> <<>>, LimitedBy |-> NoneInt]

NoCheck ==
    [url |-> None, status |-> NoneInt, error |-> None,
     final_url |-> None, stub |-> FALSE]

Init ==
    /\ pc = "start"
    /\ argv \in Argv
    /\ skip_campaigns = {}
    /\ campaigns = <<>>
    /\ campaign_id = 0
    /\ seen_campaign_ids = {}
    /\ offset = 0
    /\ ads = <<>>
    /\ limited_by = NoneInt
    /\ ad_id = 0
    /\ urls = <<>>
    /\ cur = NoCheck
    /\ any_issue = FALSE
    /\ lines = <<>>
    /\ issues_http = <<>>
    /\ issues_api = <<>>
    /\ api_call = [service |-> None, outcome |-> None]
    /\ http_gets = 0
    /\ report = None
    /\ response = NoResponse
    /\ verbose = NoVerbose
    /\ result = NoResult
    /\ group_stub = <<>>
    /\ group_404 = <<>>
    /\ group_other = <<>>
    /\ group_no_code = <<>>
    /\ total_critical_ads = 0
    /\ total_other_ads = 0

\* ---------------------------------------------------------------- actions
\* parse_args(argv): argparse exits with status 2 on an option the parser
\* does not define.
ParseArgs ==
    /\ pc = "start"
    /\ pc' = IF unknown_options(argv) THEN "usage_error" ELSE "parsed"
    /\ UNCHANGED <<argv, skip_campaigns, campaigns, campaign_id,
                   seen_campaign_ids, offset, ads, limited_by, ad_id, urls,
                   cur, any_issue, lines, issues_http, issues_api, api_call,
                   http_gets, report>>
    /\ UNCHANGED <<response, verbose, result>>
    /\ UNCHANGED <<group_stub, group_404, group_other, group_no_code,
                   total_critical_ads, total_other_ads>>

\* main from the credentials test to the creation of the client.
CheckCredentials ==
    /\ pc = "parsed"
    /\ IF ~argv.token
       THEN /\ pc' = "exit1"
            /\ UNCHANGED skip_campaigns
       ELSE /\ skip_campaigns' = load_skip_campaigns(argv)
            /\ pc' = IF argv.list_campaigns
                     THEN "list_campaigns" ELSE "campaigns_request"
    /\ UNCHANGED <<argv, campaigns, campaign_id, seen_campaign_ids, offset,
                   ads, limited_by, ad_id, urls, cur, any_issue, lines,
                   issues_http, issues_api, api_call, http_gets, report>>
    /\ UNCHANGED <<response, verbose, result>>
    /\ UNCHANGED <<group_stub, group_404, group_other, group_no_code,
                   total_critical_ads, total_other_ads>>

\* --list-campaigns: print the campaigns and return 0; an exception of the
\* request leaves main.
ListCampaigns ==
    /\ pc = "list_campaigns"
    /\ \E outcome \in ApiOutcomes :
          /\ api_call' = [service |-> "campaigns", outcome |-> outcome]
          /\ pc' = IF request_raises(outcome) = None THEN "listed" ELSE "crashed"
    /\ UNCHANGED <<argv, skip_campaigns, campaigns, campaign_id,
                   seen_campaign_ids, offset, ads, limited_by, ad_id, urls,
                   cur, any_issue, lines, issues_http, issues_api, http_gets, report>>
    /\ UNCHANGED <<response, verbose, result>>
    /\ UNCHANGED <<group_stub, group_404, group_other, group_no_code,
                   total_critical_ads, total_other_ads>>

\* The request of iter_active_campaign_ids at the head of the campaign
\* loop, which no try statement encloses.
RequestCampaigns ==
    /\ pc = "campaigns_request"
    /\ \E outcome \in ApiOutcomes :
          /\ api_call' = [service |-> "campaigns", outcome |-> outcome]
          /\ IF request_raises(outcome) = None
             THEN /\ campaigns' \in CampaignLists
                  /\ pc' = "campaign_loop"
             ELSE /\ pc' = "crashed"
                  /\ UNCHANGED campaigns
    /\ UNCHANGED <<argv, skip_campaigns, campaign_id, seen_campaign_ids,
                   offset, ads, limited_by, ad_id, urls, cur, any_issue,
                   lines, issues_http, issues_api, http_gets, report>>
    /\ UNCHANGED <<response, verbose, result>>
    /\ UNCHANGED <<group_stub, group_404, group_other, group_no_code,
                   total_critical_ads, total_other_ads>>

\* One turn of the campaign loop up to the call of iter_ads.
NextCampaign ==
    /\ pc = "campaign_loop"
    /\ campaigns # <<>>
    /\ LET c == Head(campaigns)
       IN  /\ campaign_id' = c
           /\ campaigns' = Tail(campaigns)
           /\ seen_campaign_ids' = seen_campaign_ids \cup {c}
           /\ IF argv.campaign_ids # {} /\ c \notin argv.campaign_ids
              THEN /\ pc' = "campaign_loop"
                   /\ UNCHANGED <<lines, offset>>
              ELSE IF c \in skip_campaigns
                   THEN /\ lines' = Append(lines,
                               Line("skip", c, 0, None, NoneInt, None, None))
                        /\ pc' = "campaign_loop"
                        /\ UNCHANGED offset
                   ELSE /\ lines' = Append(lines,
                               Line("header", c, 0, None, NoneInt, None, None))
                        /\ offset' = 0
                        /\ pc' = "ads_request"
    /\ UNCHANGED <<argv, skip_campaigns, ads, limited_by, ad_id, urls, cur,
                   any_issue, issues_http, issues_api, api_call, http_gets, report>>
    /\ UNCHANGED <<response, verbose, result>>
    /\ UNCHANGED <<group_stub, group_404, group_other, group_no_code,
                   total_critical_ads, total_other_ads>>

\* One request of iter_ads, with the except RuntimeError clause of main
\* when it raises; the exception ends the generator and its locals.
RequestAds ==
    /\ pc = "ads_request"
    /\ \E outcome \in ApiOutcomes :
          /\ api_call' = [service |-> "ads", outcome |-> outcome]
          /\ IF request_raises(outcome) = None
             THEN /\ \E page_ads \in PageAds :
                     \E lb \in {NoneInt, offset + PageLimit} :
                        /\ count_links(page_ads) + http_gets <= MaxLinks
                        /\ lb # NoneInt => lb < MaxPages * PageLimit
                        /\ result' = [Ads |-> page_ads, LimitedBy |-> lb]
                        /\ ads' = on_ads(page_ads)
                        /\ limited_by' = lb
                  /\ pc' = "ad_loop"
                  /\ UNCHANGED <<offset, any_issue, lines, issues_api>>
             ELSE IF is_RuntimeError(request_raises(outcome))
                  THEN /\ any_issue' = TRUE
                       /\ lines' = Append(lines,
                              Line("api_error", campaign_id, 0, None, NoneInt,
                                   None, outcome))
                       /\ issues_api' = dict_set(issues_api, campaign_id, outcome)
                       /\ offset' = 0
                       /\ limited_by' = NoneInt
                       /\ result' = NoResult
                       /\ pc' = "campaign_loop"
                       /\ UNCHANGED ads
                  ELSE /\ pc' = "crashed"
                       /\ UNCHANGED <<ads, limited_by, offset, any_issue,
                                      lines, issues_api, result>>
    /\ UNCHANGED <<argv, skip_campaigns, campaigns, campaign_id,
                   seen_campaign_ids, ad_id, urls, cur, issues_http,
                   http_gets, report>>
    /\ UNCHANGED <<response, verbose>>
    /\ UNCHANGED <<group_stub, group_404, group_other, group_no_code,
                   total_critical_ads, total_other_ads>>

\* iter_ads yields the next ON ad and main extracts its links.
NextAd ==
    /\ pc = "ad_loop"
    /\ ads # <<>>
    /\ ad_id' = Head(ads).Id
    /\ urls' = extract_urls_from_ad(Head(ads))
    /\ ads' = Tail(ads)
    /\ pc' = IF urls' = <<>> THEN "ad_loop" ELSE "link_loop"
    /\ UNCHANGED <<argv, skip_campaigns, campaigns, campaign_id,
                   seen_campaign_ids, offset, limited_by, cur, any_issue,
                   lines, issues_http, issues_api, api_call, http_gets, report>>
    /\ UNCHANGED <<response, verbose, result>>
    /\ UNCHANGED <<group_stub, group_404, group_other, group_no_code,
                   total_critical_ads, total_other_ads>>

\* iter_ads at the end of a page: stop (the generator and its locals end),
\* or ask for the page at LimitedBy.
EndPage ==
    /\ pc = "ad_loop"
    /\ ads = <<>>
    /\ IF limited_by = NoneInt
       THEN /\ pc' = "campaign_loop"
            /\ offset' = 0
            /\ result' = NoResult
       ELSE /\ offset' = limited_by
            /\ pc' = "ads_request"
            /\ UNCHANGED result
    /\ UNCHANGED <<argv, skip_campaigns, campaigns, campaign_id,
                   seen_campaign_ids, ads, limited_by, ad_id, urls, cur,
                   any_issue, lines, issues_http, issues_api, api_call,
                   http_gets, report>>
    /\ UNCHANGED <<response, verbose>>
    /\ UNCHANGED <<group_stub, group_404, group_other, group_no_code,
                   total_critical_ads, total_other_ads>>

\* The body of the link loop: check_url, is_stub_final_url, the success
\* test and the recording of the issue.
CheckLink ==
    /\ pc = "link_loop"
    /\ \E o \in FetchOutcomes :
          IF o.raised /\ ~is_RequestException(o.cls)
          THEN /\ pc' = "crashed"
               /\ http_gets' = http_gets + 1
               /\ UNCHANGED <<urls, cur, any_issue, lines, issues_http,
                              response, verbose>>
          ELSE LET v == check_url_verbose(o)
                   res == check_url(v)
                   url == Head(urls)
                   stub == is_stub_final_url(res.final_url)
               IN  /\ http_gets' = http_gets + 1
                   /\ response' = IF o.raised THEN NoResponse ELSE o.r
                   /\ verbose' = v
                   /\ cur' = [url |-> url, status |-> res.status,
                              error |-> res.error,
                              final_url |-> res.final_url, stub |-> stub]
                   /\ lines' = Append(lines,
                          link_msg(ad_id, url, res.status, res.error,
                                   res.final_url, stub))
                   /\ IF is_ok(res.status, stub)
                      THEN UNCHANGED <<any_issue, issues_http>>
                      ELSE /\ any_issue' = TRUE
                           /\ issues_http' =
                                 dict_append(issues_http, campaign_id,
                                     issue_entry(ad_id, url, res.status,
                                                 res.error, stub))
                   /\ urls' = Tail(urls)
                   /\ pc' = IF Tail(urls) = <<>> THEN "ad_loop" ELSE "link_loop"
    /\ UNCHANGED <<argv, skip_campaigns, campaigns, campaign_id,
                   seen_campaign_ids, offset, ads, limited_by, ad_id,
                   issues_api, api_call, report>>
    /\ UNCHANGED result
    /\ UNCHANGED <<group_stub, group_404, group_other, group_no_code,
                   total_critical_ads, total_other_ads>>

\* ------------------------------------------------- the groups of the report
\* Variant of group_key: a missing status code is not tested.
group_key_without_no_code(e) ==
    IF e[5] THEN "stub"
    ELSE IF e[3] = 404 THEN "404"
    ELSE "other"

\* The if / elif chain that picks the group of one entry of issues_http.
group_key(e) ==
    IF e[5] THEN "stub"
    ELSE IF e[3] = NoneInt THEN "no_code"
    ELSE IF e[3] = 404 THEN "404"
    ELSE "other"

\* One of the four defaultdict(list) groups after the loop over
\* issues_http.items(): a campaign has a key when an entry was appended.
build_group(issues, key) ==
    LET picked(c) == SelectSeq(issues[c], LAMBDA e : group_key(e) = key)
        keys == {c \in DOMAIN issues : picked(c) # <<>>}
    IN  [c \in keys |-> picked(c)]

RECURSIVE sum_len(_, _)
\* sum(len(v) for v in group.values()), over the keys given.
sum_len(group, keys) ==
    IF keys = {} THEN 0
    ELSE LET k == CHOOSE x \in keys : TRUE
         IN  Len(group[k]) + sum_len(group, keys \ {k})

\* ", ".join(map(str, sorted(ids))) on the sets of the model.
join_ids(ids) == IF ids = {} THEN "" ELSE "1"

\* After the campaign loop: the warning about target campaigns that were
\* not seen and the summary line; then the log file is written (a failure
\* is caught and printed), the Telegram report is prepared, with the four
\* groups and the totals when there are issues, and sent (a failed send
\* only prints a message) and main returns 0.
Finalize ==
    /\ pc = "campaign_loop"
    /\ campaigns = <<>>
    /\ LET missing == argv.campaign_ids \ seen_campaign_ids
           warning == IF missing # {}
                      THEN <<Line("missing", 0, 0, None, NoneInt, None,
                                  join_ids(missing))>>
                      ELSE <<>>
           summary_line == IF any_issue THEN "issues found" ELSE "all links ok"
       IN  lines' = lines \o warning
                      \o <<Line("summary", 0, 0, None, NoneInt, None,
                                summary_line)>>
    /\ report' = IF ~argv.telegram THEN "not_sent"
                 ELSE IF DOMAIN issues_http # {} \/ DOMAIN issues_api # {}
                      THEN "issues" ELSE "ok"
    /\ IF argv.telegram /\ (DOMAIN issues_http # {} \/ DOMAIN issues_api # {})
       THEN LET stub == build_group(issues_http, "stub")
                g404 == build_group(issues_http, "404")
                other == build_group(issues_http, "other")
                no_code == build_group(issues_http, "no_code")
            IN  /\ group_stub' = stub
                /\ group_404' = g404
                /\ group_other' = other
                /\ group_no_code' = no_code
                /\ total_critical_ads' =
                      sum_len(stub, DOMAIN stub) + sum_len(g404, DOMAIN g404)
                          + sum_len(no_code, DOMAIN no_code)
                /\ total_other_ads' = sum_len(other, DOMAIN other)
       ELSE UNCHANGED <<group_stub, group_404, group_other, group_no_code,
                        total_critical_ads, total_other_ads>>
    /\ pc' = "done"
    /\ UNCHANGED <<argv, skip_campaigns, campaigns, campaign_id,
                   seen_campaign_ids, offset, ads, limited_by, ad_id, urls,
                   cur, any_issue, issues_http, issues_api, api_call,
                   http_gets>>
    /\ UNCHANGED <<response, verbose, result>>

Next ==
    \/ ParseArgs
    \/ CheckCredentials
    \/ ListCampaigns
    \/ RequestCampaigns
    \/ NextCampaign
    \/ RequestAds
    \/ NextAd
    \/ EndPage
    \/ CheckLink
    \/ Finalize

Spec == Init /\ [][Next]_vars

\* The runs of two command lines: --campaign-ids 1 and --list-campaigns.
InitOneCampaign ==
    Init /\ (argv.campaign_ids = {1} \/ argv.list_campaigns)

\* main is one thread that runs until it returns or an exception leaves
\* it: a step that can be taken is taken.
FairSpec == InitOneCampaign /\ [][Next]_vars /\ WF_vars(Next)

\* ------------------------------------------------------------ properties
\* Vocabulary of the properties below.
Last(seq) == seq[Len(seq)]

LinkKinds == {"ok", "stub", "error", "http"}
IssueKinds == {"stub", "error", "http"}

\* Number of entries of lines whose kind is in kinds.
CountLines(kinds) == Cardinality({i \in 1..Len(lines) : lines[i].kind \in kinds})

RECURSIVE SumLen(_, _)
SumLen(d, keys) ==
    IF keys = {} THEN 0
    ELSE LET k == CHOOSE x \in keys : TRUE
         IN  Len(d[k]) + SumLen(d, keys \ {k})

\* Number of entries in all the lists of a dict of lists.
TotalIssues(d) == SumLen(d, DOMAIN d)

\* Length of the list of a campaign in a defaultdict(list) that is read
\* without creating the key.
IssuesOf(d, c) == IF c \in DOMAIN d THEN d[c] ELSE <<>>

\* The URLs of the model that match the stub registry: host bankpro.su or
\* tb.gdeslon.ru in any letter case, or host offerwall.admitad.com with a
\* path that starts with /wall/offers.
StubRegistryUrls ==
    { "https://bankpro.su/x", "https://BANKPRO.SU", "https://tb.gdeslon.ru/",
      "https://offerwall.admitad.com/wall/offers/7",
      "https://bankpro.su/offer/123", "https://BANKPRO.SU/offer/123" }

\* The decision order of the classification: stub registry, 2xx, 404, any
\* other status code, no status code.
Category(status, final_url) ==
    IF final_url \in StubRegistryUrls THEN "Stub"
    ELSE IF status \in 200..299 THEN "OK"
    ELSE IF status = 404 THEN "NotFound"
    ELSE IF status # NoneInt THEN "OtherHttpError"
    ELSE "TransportError"

\* The category of a recorded issue entry, by its stub flag and its code.
EntryCategory(e) ==
    IF e[5] THEN "Stub"
    ELSE IF e[3] = NoneInt THEN "TransportError"
    ELSE IF e[3] = 404 THEN "NotFound"
    ELSE "OtherHttpError"

\* A step in which one link has been fetched and check_url has returned.
LinkChecked == pc = "link_loop" /\ http_gets' = http_gets + 1 /\ pc' # "crashed"

\* What a LinkChecked step has recorded for the link: "OK" when no issue
\* entry was appended, the category of the appended entry otherwise.
RecordedCategory ==
    IF issues_http' = issues_http
    THEN IF Last(lines').kind = "ok" THEN "OK" ELSE "nothing"
    ELSE EntryCategory(Last(issues_http'[campaign_id]))

C2_ClassificationTotal ==
    [][LinkChecked
          => /\ RecordedCategory = Category(cur'.status, cur'.final_url)
             /\ TotalIssues(issues_http') - TotalIssues(issues_http) \in {0, 1}
             /\ (Last(lines').kind = "ok") <=> (issues_http' = issues_http)]_vars

\* C2 witness: a 299 response at a URL outside the registry was recorded OK
\* after an earlier link had been recorded with an issue.
C2_Witness ==
    /\ cur.status = 299
    /\ cur.final_url \notin StubRegistryUrls
    /\ lines # <<>> /\ Last(lines).kind = "ok"
    /\ TotalIssues(issues_http) = 1

\* C6: what check_url returns has a status code exactly when it has no
\* error text: status is None if and only if error is not None.
C6_StatusXorError ==
    cur.url # None => ((cur.status = NoneInt) <=> (cur.error # None))

\* C6 witness: a fetch that raised, with an empty exception message.
C6_Witness ==
    cur.url # None /\ cur.status = NoneInt /\ cur.error = "" /\ cur.final_url = None

\* C7: every checked link adds exactly one message to lines, and adds one
\* entry to the issue list of its campaign when its category is not OK and
\* none when it is OK; no other step changes issues_http.
C7_OneOutcomePerLink ==
    [][/\ LinkChecked
          => /\ Len(lines') = Len(lines) + 1
             /\ Last(lines').kind \in LinkKinds
             /\ TotalIssues(issues_http')
                   = TotalIssues(issues_http)
                       + (IF Category(cur'.status, cur'.final_url) = "OK"
                          THEN 0 ELSE 1)
             /\ \A c \in DOMAIN issues_http :
                   c # campaign_id => issues_http'[c] = issues_http[c]
       /\ ~LinkChecked => issues_http' = issues_http]_vars

\* C7 witness: two links were checked, one OK and one with an issue.
C7_Witness ==
    /\ CountLines({"ok"}) = 1
    /\ CountLines(IssueKinds) = 1
    /\ TotalIssues(issues_http) = 1
    /\ http_gets = 2

\* C10: a link that ends in a transport failure, a status outside 2xx or a
\* stub is recorded as an issue of that link, and the loops go on: only the
\* checked link leaves the pending links, and the pending ads, pages and
\* campaigns stay as they were.
C10_LinkFailureNotFatal ==
    [][(pc = "link_loop" /\ http_gets' = http_gets + 1)
          => /\ pc' \in {"link_loop", "ad_loop"}
             /\ urls' = Tail(urls)
             /\ pc' = "link_loop" <=> urls' # <<>>
             /\ <<ads, limited_by, offset, campaigns>>'
                   = <<ads, limited_by, offset, campaigns>>
             /\ Category(cur'.status, cur'.final_url) # "OK"
                   => /\ any_issue'
                      /\ campaign_id \in DOMAIN issues_http'
                      /\ Last(issues_http'[campaign_id])[2] = Head(urls)
                      /\ Last(issues_http'[campaign_id])[1] = ad_id]_vars

\* C10 witness: a link was recorded with an issue and a later link was
\* checked after it.
C10_Witness ==
    \E i, j \in 1..Len(lines) :
        /\ i < j
        /\ lines[i].kind \in IssueKinds
        /\ lines[j].kind \in LinkKinds

\* The states in which main has ended.
Ended == pc \in {"done", "usage_error", "exit1", "listed", "crashed"}

\* C4: every link is resolved at least once, and with recheck_attempts = N
\* it is fetched exactly 1 + N times: a run given N is carried out, and the
\* number of fetches is 1 + N times the number of checked links.
C4_FetchesPerLink ==
    /\ pc # "usage_error"
    /\ pc # "crashed"
          => http_gets = (1 + argv.recheck_attempts) * CountLines(LinkKinds)

\* C3: with recheck_attempts = 1 the last attempt decides: the run is
\* carried out, and a link whose last attempt answered 200 at a URL outside
\* the stub registry has an OK message and no error message.
C3_LastAttemptDecides ==
    argv.recheck_attempts = 1
        => /\ ~(Ended /\ pc # "done")
           /\ (cur.status = 200 /\ cur.final_url \notin StubRegistryUrls
                 /\ lines # <<>> /\ Last(lines).kind \in LinkKinds)
                 => Last(lines).kind = "ok"

\* C5: with recheck restricted to a set of hosts the run is carried out
\* and a link whose latest final URL has a host of the set is fetched again.
C5_EligibilityByLatestHost ==
    argv.recheck_only_domains
        => /\ pc \notin {"usage_error", "exit1", "crashed"}
           /\ (pc = "done" /\ CountLines(LinkKinds) > 0)
                 => http_gets > CountLines(LinkKinds)

\* C8: no condition aborts the run: main never ends before the summary
\* line, the log and the report.
C8_NoAbort == pc \notin {"usage_error", "exit1", "listed", "crashed"}

\* C9: a failed ads request, whatever the failure, is recorded in
\* issues_api for its campaign, leaves issues_http as it was, and the
\* campaign loop goes on with the next campaign.
C9_AdsFailureSkipsCampaign ==
    [][(pc = "ads_request" /\ api_call'.outcome # "ok")
          => /\ pc' = "campaign_loop"
             /\ campaign_id \in DOMAIN issues_api'
             /\ \A c \in DOMAIN issues_api : issues_api'[c] = issues_api[c]
             /\ issues_http' = issues_http
             /\ campaigns' = campaigns
             /\ any_issue']_vars

\* ------------------------------------------- properties of one link check
\* A content type header that names HTML, in any letter case.
IsHtmlType(content_type) ==
    content_type \in {"text/html; charset=utf-8", "text/html", "Text/HTML"}

\* The last check returned a response with status 200 and a non-empty
\* HTML body.
Html200 ==
    /\ cur.url # None
    /\ response.status_code = 200
    /\ IsHtmlType(response.content_type)
    /\ response.text # <<>>

\* Positions of the document where rule k matches, and the first of them.
Matching(k) == {i \in 1..Len(response.text) : response.text[i].rule = k}

FirstMatch(k) == CHOOSE i \in Matching(k) : \A j \in Matching(k) : i <= j

\* Rule k matches and the target of its first match is not blank.
Usable(k) ==
    Matching(k) # {} /\ strip(response.text[FirstMatch(k)].target) # ""

\* Rule k matches and the target of its first match is blank.
Blank(k) ==
    Matching(k) # {} /\ strip(response.text[FirstMatch(k)].target) = ""

\* The target of the first match of rule k, resolved against the URL the
\* fetch ended at.
Resolved(k) ==
    urljoin(response.url, strip(response.text[FirstMatch(k)].target))

\* The message logged for the last checked link.
LastLinkLine ==
    lines[CHOOSE i \in 1..Len(lines) :
             /\ lines[i].kind \in LinkKinds
             /\ \A j \in (i + 1)..Len(lines) : lines[j].kind \notin LinkKinds]

\* C11: when the fetch ends with status 200 and an HTML body in which a
\* client-side redirect target is found, check_url returns that target,
\* resolved against the fetched URL, as final_url; status stays 200, error
\* stays None and the link was fetched once; the link is Stub when the
\* target matches the stub registry and OK otherwise.
C11_ClientTargetIsFinalUrl ==
    (Html200 /\ \E k \in 1..NumPatterns : Usable(k))
        => /\ \E k \in 1..NumPatterns : Usable(k) /\ cur.final_url = Resolved(k)
           /\ cur.status = 200
           /\ cur.error = None
           /\ http_gets = CountLines(LinkKinds)
           /\ LastLinkLine.kind
                 = (IF cur.final_url \in StubRegistryUrls THEN "stub" ELSE "ok")

\* C11 witness: a 200 page fetched at https://site.example/x redirected to
\* /offer/123 and was recorded OK, after a 200 page that redirected to a
\* stub host was recorded as a stub.
C11_Witness ==
    /\ Html200
    /\ response.url = "https://site.example/x"
    /\ cur.final_url = "https://site.example/offer/123"
    /\ LastLinkLine.kind = "ok"
    /\ \E i \in 1..Len(lines) :
          /\ lines[i].kind = "stub"
          /\ lines[i].final_url = "https://tb.gdeslon.ru/"

\* C12: the rules are tried in the order meta refresh, location.href,
\* window.location, location.replace: the target returned is that of the
\* first rule that matches, wherever in the document the later rules match.
C12_FirstRuleWins ==
    \A k \in 1..NumPatterns :
        (Html200 /\ Usable(k) /\ \A j \in 1..(k - 1) : Matching(j) = {})
            => cur.final_url = Resolved(k)

\* C12 witness: a document with a location.replace call followed by a meta
\* refresh tag gave the target of the meta refresh tag.
C12_Witness ==
    /\ Html200
    /\ Matching(4) # {} /\ Matching(1) # {}
    /\ FirstMatch(4) < FirstMatch(1)
    /\ Resolved(4) # Resolved(1)
    /\ cur.final_url = Resolved(1)

\* C13: a rule whose first match captures a blank target counts as not
\* matching: the target comes from the first later rule with a target that
\* is not blank, never from a later match of the same rule, and when no
\* rule gives a target the final URL of the fetch is kept.
C13_BlankTargetSkipsRule ==
    Html200
        => LET usable == {k \in 1..NumPatterns : Usable(k)}
           IN  IF usable = {}
               THEN cur.final_url = response.url
               ELSE LET first == CHOOSE k \in usable : \A j \in usable : k <= j
                    IN  /\ cur.final_url = Resolved(first)
                        /\ \A k \in 1..NumPatterns :
                              Blank(k) => first # k

\* C13 witness: the first location.href match was blank, a later
\* location.href match was not, and the window.location target was
\* returned.
C13_Witness ==
    /\ Html200
    /\ Blank(2)
    /\ \E i \in Matching(2) : strip(response.text[i].target) # ""
    /\ Usable(3)
    /\ cur.final_url = Resolved(3)
    /\ cur.final_url # response.url

\* C14: for a response whose content type is not HTML the body is not
\* captured and no client-side target is looked for: final_url is the URL
\* the fetch ended at, and a 200 response outside the stub registry is OK.
C14_NonHtmlNotCaptured ==
    (cur.url # None /\ response # NoResponse
        /\ ~IsHtmlType(response.content_type))
        => /\ verbose.html = NoHtml
           /\ cur.final_url = response.url
           /\ cur.status = response.status_code
           /\ (response.status_code = 200
                 /\ response.url \notin StubRegistryUrls)
                 => LastLinkLine.kind = "ok"

\* C14 witness: a 200 application/pdf response whose body holds a redirect
\* to a stub host was recorded OK at its own URL.
C14_Witness ==
    /\ cur.url # None
    /\ response.content_type = "application/pdf"
    /\ response.status_code = 200
    /\ \E i \in 1..Len(response.text) :
          response.text[i].target = "https://tb.gdeslon.ru/"
    /\ cur.final_url = "https://site.example/x"
    /\ LastLinkLine.kind = "ok"

\* The status codes that have a description.
DescribedCodes == {400, 401, 403, 404, 429, 500, 502, 503, 504}

\* C15: a recorded issue that is not a stub and has a status code carries
\* a code outside 2xx and the description of the table when the code is
\* one of 400, 401, 403, 404, 429, 500, 502, 503, 504 (404: page not
\* found), and no description for another code; one without status code
\* carries the error message, or a fixed text when the message is empty.
C15_IssueDescription ==
    /\ DOMAIN HTTP_STATUS_DESCRIPTIONS = DescribedCodes
    /\ HTTP_STATUS_DESCRIPTIONS[404] = "page not found"
    /\ \A c \in DOMAIN issues_http :
          \A i \in 1..Len(issues_http[c]) :
             LET e == issues_http[c][i]
             IN  ~e[5]
                    => IF e[3] = NoneInt
                       THEN e[4] \notin {None, ""}
                       ELSE /\ e[3] \notin 200..299
                            /\ e[3] \in DescribedCodes
                                  => e[4] = HTTP_STATUS_DESCRIPTIONS[e[3]]
                            /\ e[3] \notin DescribedCodes => e[4] = None
    /\ (cur.url # None /\ ~cur.stub /\ LastLinkLine.kind # "ok")
          => \E c \in DOMAIN issues_http :
                LET e == Last(issues_http[c])
                IN  /\ e[1] = LastLinkLine.ad_id
                    /\ e[2] = cur.url
                    /\ e[3] = cur.status
                    /\ cur.status = NoneInt
                          => e[4] = (IF cur.error = ""
                                     THEN "request error, no details"
                                     ELSE cur.error)

\* C15 witness: a 404 and a fetch that failed without a message were
\* recorded, the one as page not found and the other with the fixed text.
C15_Witness ==
    \E c \in DOMAIN issues_http :
        \E i, j \in 1..Len(issues_http[c]) :
            /\ issues_http[c][i][3] = 404
            /\ issues_http[c][i][4] = "page not found"
            /\ issues_http[c][j][3] = NoneInt
            /\ issues_http[c][j][4] = "request error, no details"
            /\ cur.error = ""

\* C16: unless the status is 200 and a non-empty HTML body was captured,
\* check_url returns the status, error and final URL of check_url_verbose
\* as they are, so a page with another status that redirects to a stub
\* host on the client side is not a stub.
C16_MatcherOnly200Html ==
    (cur.url # None
        /\ (verbose.status # 200 \/ ~verbose.html.captured
              \/ verbose.html.text = <<>>))
        => /\ cur.status = verbose.status
           /\ cur.error = verbose.error
           /\ cur.final_url = verbose.final_url
           /\ LastLinkLine.kind = "stub"
                 => verbose.final_url \in StubRegistryUrls

\* C16 witness: a 299 HTML page whose body redirects to a stub host was
\* recorded OK.
C16_Witness ==
    /\ cur.url # None
    /\ verbose.status = 299
    /\ verbose.html.captured
    /\ \E i \in 1..Len(verbose.html.text) :
          verbose.html.text[i].target = "https://tb.gdeslon.ru/"
    /\ cur.final_url = "https://site.example/x"
    /\ LastLinkLine.kind = "ok"

\* ------------------------------------------------ properties of the report
\* C17: any_issue is true exactly when a link issue has been recorded in
\* issues_http or an API error in issues_api, at every point of the run;
\* so the summary line tells of issues exactly when issues_http or
\* issues_api is not empty, which is the test of the report with issues.
C17_AnyIssueIffRecorded ==
    /\ any_issue <=> (DOMAIN issues_http # {} \/ DOMAIN issues_api # {})
    /\ any_issue <=> (TotalIssues(issues_http) > 0 \/ DOMAIN issues_api # {})
    /\ pc = "done"
          => /\ Last(lines).kind = "summary"
             /\ (Last(lines).desc = "issues found")
                   <=> (DOMAIN issues_http # {} \/ DOMAIN issues_api # {})
             /\ argv.telegram
                   => ((Last(lines).desc = "issues found") <=> (report = "issues"))

\* C17 witness: a run ended with an API error as its only issue, and the
\* report with issues was prepared.
C17_Witness ==
    /\ pc = "done"
    /\ any_issue
    /\ DOMAIN issues_http = {}
    /\ DOMAIN issues_api # {}
    /\ Last(lines).desc = "issues found"
    /\ report = "issues"

\* Number of logged link messages of a kind whose status is in codes.
CountLinesWith(kind, codes) ==
    Cardinality({i \in 1..Len(lines) :
                    lines[i].kind = kind /\ lines[i].status \in codes})

\* Number of times entry e occurs in the list of campaign c in a group.
Occurrences(group, c, e) ==
    IF c \in DOMAIN group
    THEN Cardinality({i \in 1..Len(group[c]) : group[c][i] = e})
    ELSE 0

\* The report with issues has been prepared.
Grouped == pc = "done" /\ report = "issues"

\* C18: in the report with issues every entry of issues_http is in exactly
\* one of the groups stub, no-code, 404 and other; the group is the one of
\* the category recorded for the link (stub message, error message, 404,
\* other code); the two totals add up to the number of recorded link
\* issues; and preparing the report changes neither issues_http nor
\* issues_api.
C18_GroupsPartitionIssues ==
    /\ [](Grouped
            => /\ \A c \in DOMAIN issues_http :
                     /\ Len(issues_http[c])
                           = Len(IssuesOf(group_stub, c))
                               + Len(IssuesOf(group_no_code, c))
                               + Len(IssuesOf(group_404, c))
                               + Len(IssuesOf(group_other, c))
                     /\ \A i \in 1..Len(issues_http[c]) :
                           LET e == issues_http[c][i]
                               n == Occurrences(issues_http, c, e)
                           IN  /\ <<Occurrences(group_stub, c, e),
                                    Occurrences(group_no_code, c, e),
                                    Occurrences(group_404, c, e),
                                    Occurrences(group_other, c, e)>>
                                     \in {<<n, 0, 0, 0>>, <<0, n, 0, 0>>,
                                          <<0, 0, n, 0>>, <<0, 0, 0, n>>}
                               /\ Occurrences(group_stub, c, e) = n <=> e[5]
               /\ (DOMAIN group_stub \cup DOMAIN group_no_code
                     \cup DOMAIN group_404 \cup DOMAIN group_other)
                     = DOMAIN issues_http
               /\ TotalIssues(group_stub) = CountLines({"stub"})
               /\ TotalIssues(group_no_code) = CountLines({"error"})
               /\ TotalIssues(group_404) = CountLinesWith("http", {404})
               /\ TotalIssues(group_other)
                     = CountLines({"http"}) - CountLinesWith("http", {404})
               /\ total_critical_ads + total_other_ads
                     = TotalIssues(issues_http))
    /\ [][pc' = "done"
            => issues_http' = issues_http /\ issues_api' = issues_api]_vars

\* C18 witness: the report was prepared for a run that recorded one issue
\* counted as critical and one with another HTTP code.
C18_Witness ==
    /\ Grouped
    /\ total_critical_ads = 1
    /\ total_other_ads = 1
    /\ TotalIssues(issues_http) = 2

\* ---------------------------------------------------- properties of iter_ads
RECURSIVE OnOnly(_)
\* The ads of a page whose State is ON, in the order of the page.
OnOnly(page) ==
    IF page = <<>> THEN <<>>
    ELSE IF Head(page).State = "ON"
         THEN <<Head(page)>> \o OnOnly(Tail(page))
         ELSE OnOnly(Tail(page))

====
